---- MODULE Spec2Model ----
(***************************************************************************)
(* Gameplay state machine of the ld34 tower-defence entry (src/src/lib.rs).*)
(*                                                                         *)
(* The state is the content of the managers the game code reads and        *)
(* writes: the GameData singleton (grid, selected, cursor,                 *)
(* resource_count), the UnitManager, the EnemyManager, and the parts of    *)
(* the engine's managers the game code assigns to (entities, transforms'   *)
(* scale, meshes, colliders, alarms, registered callbacks).                *)
(*                                                                         *)
(* World coordinates are f32 values, held as integers in units of 2^-27:   *)
(* MOUSE_SPEED, the f32 nearest to 0.1, is 13421773 of these units, and    *)
(* every sum and product the cursor step takes is a whole number of them   *)
(* before it is rounded to the 24 significant bits of an f32.  Scales are  *)
(* in tenths.  Positions of enemies and                                    *)
(* of the camera are continuous and random/time dependent; they are not    *)
(* part of the state, and a collision is an input of the engine: any       *)
(* enemy that carries the collision callback, against any list of other    *)
(* entities that carry a collider.  Alarms carry no time: a pending alarm  *)
(* may fire at any later step.                                             *)
(***************************************************************************)
EXTENDS Integers, Sequences, FiniteSets, TLC

VARIABLES
    entities,        \* live entities of the scene
    next_entity,     \* the id scene.create_entity() returns next
    grid,            \* GameData.grid: GridPos -> Entity
    selected,        \* GameData.selected
    cursor,          \* GameData.cursor (x, y: f32 in units of 2^-27)
    resource_count,  \* GameData.resource_count
    units,           \* UnitManager: Entity -> PlayerUnit
    enemies,         \* EnemyManager: the entities that carry Enemy
    scale,           \* TransformManager: Entity -> scale (tenths, three axes)
    meshes,          \* MeshManager: Entity -> mesh name
    colliders,       \* ColliderManager: Entity -> [shape, callback]
    alarms,          \* AlarmManager: the pending alarms
    next_alarm,      \* the AlarmId the alarm manager returns next
    callbacks,       \* callbacks registered with the engine for hotloading
    panicked,        \* an unwrap() on None aborted the program
    obs              \* the event the engine delivered last, with its inputs
                     \* and, for a frame, the state between its two steps

vars == <<entities, next_entity, grid, selected, cursor, resource_count, units,
          enemies, scale, meshes, colliders, alarms, next_alarm, callbacks,
          panicked, obs>>

----------------------------------------------------------------------------
(* Program constants.                                                      *)

CELL_SIZE == 5
\* MOUSE_SPEED: f32 = 0.1 is 0x3DCCCCCD, 13421773 * 2^-27: the f32 nearest
\* to 1 / MOUSE_SPEED_DEN.
MOUSE_SPEED == 13421773
MOUSE_SPEED_DEN == 10
\* 1.0 in the unit of world coordinates, 2^27.
F32_ONE == 134217728
\* An f32 has 24 significant bits: 2^24.
F32_SIGNIFICAND == 16777216
BASE_SCALE_PER_LEVEL == 1
MIN_ENEMY_COUNT == 5
INITIAL_RESOURCE_COUNT == 10
ENEMY_RADIUS == 10

(* Bounds of the model.                                                    *)

MaxEntity == 8
MaxOthers == 3
MaxCellX == 1
MaxCoord == 60

None == "None"

Max(a, b) == IF a > b THEN a ELSE b

----------------------------------------------------------------------------
(* f32 arithmetic, round to nearest with ties to even, on integers in      *)
(* units of 2^-27.  Magnitudes stay below 16.0, so that 32 bits hold them. *)

Abs(n) == IF n < 0 THEN -n ELSE n

\* The spacing of the f32 values at magnitude a: 1 below 2^24 units, and
\* doubled with every binade above.
RECURSIVE Spacing(_)
Spacing(a) == IF a < F32_SIGNIFICAND THEN 1 ELSE 2 * Spacing(a \div 2)

\* num / den for num >= 0, rounded to the nearest multiple of q, a tie to
\* the even multiple.
RoundRatio(num, den, q) ==
    LET m == num \div (den * q)
        twice_rest == 2 * (num - m * den * q)
    IN IF twice_rest < den * q THEN m * q
       ELSE IF twice_rest > den * q THEN (m + 1) * q
       ELSE IF m % 2 = 0 THEN m * q ELSE (m + 1) * q

\* The f32 nearest to n units.
f32(n) ==
    IF n < 0 THEN -RoundRatio(-n, 1, Spacing(-n))
    ELSE RoundRatio(n, 1, Spacing(n))

\* a + b in f32.
f32_add(a, b) == f32(a + b)

\* `k as f32 * x` in f32, for an integer k.
f32_scale(k, x) == f32(k * x)

\* (x / d).floor() as isize, for a whole d.  A quotient of magnitude below
\* 1/16 has a spacing finer than the unit; it keeps the sign of x and is
\* not 0 unless x is, which fixes its floor.
f32_div_floor(x, d) ==
    IF Abs(x) < d * (F32_SIGNIFICAND \div 2)
    THEN IF x < 0 THEN -1 ELSE 0
    ELSE LET a == Abs(x)
             quotient == RoundRatio(a, d, Spacing(a \div d))
         IN IF x < 0 THEN (-quotient) \div F32_ONE ELSE quotient \div F32_ONE

----------------------------------------------------------------------------
(* GridPos.                                                                *)

GridPos_new(x, y) == [x |-> x, y |-> y]

from_world_no_cell_size(point) ==
    [x |-> f32_div_floor(point.x, 1), y |-> f32_div_floor(point.y, 1)]

\* (point / CELL_SIZE).floor() as isize
from_world(point) ==
    [x |-> f32_div_floor(point.x, CELL_SIZE),
     y |-> f32_div_floor(point.y, CELL_SIZE)]

\* self as f32 * CELL_SIZE
to_world(pos) ==
    [x |-> f32_scale(pos.x, CELL_SIZE * F32_ONE),
     y |-> f32_scale(pos.y, CELL_SIZE * F32_ONE)]

----------------------------------------------------------------------------
(* The managers as one record, so that the steps of a handler compose.     *)

State ==
    [entities |-> entities, next_entity |-> next_entity, grid |-> grid,
     selected |-> selected, cursor |-> cursor,
     resource_count |-> resource_count, units |-> units, enemies |-> enemies,
     scale |-> scale, meshes |-> meshes, colliders |-> colliders,
     alarms |-> alarms, next_alarm |-> next_alarm, callbacks |-> callbacks,
     panicked |-> panicked]

Commit(st) ==
    /\ entities' = st.entities
    /\ next_entity' = st.next_entity
    /\ grid' = st.grid
    /\ selected' = st.selected
    /\ cursor' = st.cursor
    /\ resource_count' = st.resource_count
    /\ units' = st.units
    /\ enemies' = st.enemies
    /\ scale' = st.scale
    /\ meshes' = st.meshes
    /\ colliders' = st.colliders
    /\ alarms' = st.alarms
    /\ next_alarm' = st.next_alarm
    /\ callbacks' = st.callbacks
    /\ panicked' = st.panicked

Holds(st) ==
    /\ entities = st.entities
    /\ next_entity = st.next_entity
    /\ grid = st.grid
    /\ selected = st.selected
    /\ cursor = st.cursor
    /\ resource_count = st.resource_count
    /\ units = st.units
    /\ enemies = st.enemies
    /\ scale = st.scale
    /\ meshes = st.meshes
    /\ colliders = st.colliders
    /\ alarms = st.alarms
    /\ next_alarm = st.next_alarm
    /\ callbacks = st.callbacks
    /\ panicked = st.panicked

Without(f, e) == [k \in DOMAIN f \ {e} |-> f[k]]

\* manager.assign(entity, value) and HashMap::insert: the new value wins.
Put(f, k, v) == (k :> v) @@ f

\* scene.create_entity(): a fresh id.
create_entity(st) ==
    [st EXCEPT !.entities = @ \cup {st.next_entity}, !.next_entity = @ + 1]

\* scene.destroy_entity(entity): the entity and its components are gone
\* (the engine's contract; no alarm is keyed to an enemy once it has spawned).
destroy_entity(st, entity) ==
    [st EXCEPT !.entities = @ \ {entity},
               !.units = Without(@, entity),
               !.enemies = @ \ {entity},
               !.scale = Without(@, entity),
               !.meshes = Without(@, entity),
               !.colliders = Without(@, entity)]

\* alarm_manager.assign / assign_repeating: a new pending alarm.
alarm_assign(st, entity, callback, repeating) ==
    [st EXCEPT !.alarms = @ \cup {[id |-> st.next_alarm, entity |-> entity,
                                   callback |-> callback,
                                   repeating |-> repeating]},
               !.next_alarm = @ + 1]

\* alarm_manager.assign(scene.create_entity(), ENEMY_SPAWN_DELAY, spawn_enemy)
schedule_spawn(st) ==
    alarm_assign(create_entity(st), st.next_entity, "spawn_enemy", FALSE)

----------------------------------------------------------------------------
(* scene_setup and scene_reset.                                            *)

Empty == [k \in {} |-> 0]

Blank ==
    [entities |-> {}, next_entity |-> 0, grid |-> Empty,
     selected |-> GridPos_new(0, 0), cursor |-> [x |-> 0, y |-> 0],
     resource_count |-> INITIAL_RESOURCE_COUNT, units |-> Empty,
     enemies |-> {}, scale |-> Empty, meshes |-> Empty, colliders |-> Empty,
     alarms |-> {}, next_alarm |-> 0, callbacks |-> {}, panicked |-> FALSE]

Base(level) ==
    [kind |-> "Base", level |-> level, shoot_alarm |-> None, target |-> None]

Turret(level, shoot_alarm, target) ==
    [kind |-> "Turret", level |-> level, shoot_alarm |-> shoot_alarm,
     target |-> target]

scene_setup(st) ==
    LET base_entity == st.next_entity
        s1 == [create_entity(st) EXCEPT
                 !.meshes = Put(@, base_entity, "cube")]
        s2 == create_entity(s1)      \* light
        s3 == create_entity(s2)      \* camera
    IN [s3 EXCEPT
          !.grid = Put(@, GridPos_new(0, 0), base_entity),
          !.units = Put(@, base_entity, Base(1)),
          !.scale = Put(@, base_entity,
                        <<1 * CELL_SIZE * BASE_SCALE_PER_LEVEL,
                          1 * CELL_SIZE * BASE_SCALE_PER_LEVEL,
                          1 * CELL_SIZE * BASE_SCALE_PER_LEVEL>>),
          !.colliders = Put(@, base_entity,
                            [shape |-> "Box", callback |-> FALSE])]

scene_reset_off_by_one(st) ==
    LET s1 == [st EXCEPT !.callbacks =
                  @ \cup {"on_enemy_collision", "spawn_enemy", "fire_turret"}]
    IN IF Cardinality(s1.enemies) <= MIN_ENEMY_COUNT
       THEN schedule_spawn(s1)
       ELSE s1

scene_reset(st) ==
    LET s1 == [st EXCEPT !.callbacks =
                  @ \cup {"on_enemy_collision", "spawn_enemy", "fire_turret"}]
    IN IF Cardinality(s1.enemies) < MIN_ENEMY_COUNT
       THEN schedule_spawn(s1)
       ELSE s1

game_init == scene_reset(scene_setup(Blank))

NoObs == [op |-> "game_init", b0 |-> FALSE, b1 |-> FALSE,
          pre_resource |-> 0, mid |-> <<>>, enemy |-> None, kinds |-> <<>>]

Init ==
    /\ Holds(game_init)
    /\ obs = NoObs

----------------------------------------------------------------------------
(* manager_update: one frame of the input system.                          *)

place_turret_unguarded(st, b0) ==
    IF b0
    THEN LET unit_entity == st.next_entity
             alarm_id == st.next_alarm
             s1 == create_entity(st)
             s2 == [s1 EXCEPT !.scale = Put(@, unit_entity, <<5, 5, 10>>),
                              !.meshes = Put(@, unit_entity, "pCube1-lib")]
             s3 == alarm_assign(s2, unit_entity, "fire_turret", TRUE)
         IN [s3 EXCEPT
               !.units = Put(@, unit_entity, Turret(1, alarm_id, None)),
               !.grid = Put(@, st.selected, unit_entity),
               !.resource_count = @ - 1]
    ELSE st

place_turret_no_resource_check(st, b0) ==
    IF st.selected \notin DOMAIN st.grid
    THEN place_turret_unguarded(st, b0)
    ELSE st

place_turret_no_occupancy_check(st, b0) ==
    IF st.resource_count > 0
    THEN place_turret_unguarded(st, b0)
    ELSE st

place_turret_free(st, b0) ==
    IF st.resource_count > 0 /\ b0 /\ st.selected \notin DOMAIN st.grid
    THEN [place_turret_unguarded(st, b0) EXCEPT
            !.resource_count = st.resource_count]
    ELSE st

\* lines 248-269: the placement step (button 0).
place_turret(st, b0) ==
    IF st.resource_count > 0 /\ b0
    THEN IF st.selected \notin DOMAIN st.grid
         THEN LET unit_entity == st.next_entity
                  alarm_id == st.next_alarm
                  s1 == create_entity(st)
                  s2 == [s1 EXCEPT
                           !.scale = Put(@, unit_entity, <<5, 5, 10>>),
                           !.meshes = Put(@, unit_entity, "pCube1-lib")]
                  s3 == alarm_assign(s2, unit_entity, "fire_turret", TRUE)
              IN [s3 EXCEPT
                    !.units = Put(@, unit_entity, Turret(1, alarm_id, None)),
                    !.grid = Put(@, st.selected, unit_entity),
                    !.resource_count = @ - 1]
         ELSE st
    ELSE st

level_up_by_cost(st, entity) ==
    [st EXCEPT !.units[entity].level = @ + st.resource_count,
               !.resource_count = @ - 1]

\* One level up for the unit of `entity`, as both arms of the match do.
level_up(st, entity) ==
    [st EXCEPT !.units[entity].level = @ + 1, !.resource_count = @ - 1]

\* lines 282-286: the base is rescaled from the level it has now.
rescale_base(st, entity) ==
    [st EXCEPT !.scale[entity] =
        <<st.units[entity].level * CELL_SIZE * BASE_SCALE_PER_LEVEL,
          st.units[entity].level * CELL_SIZE * BASE_SCALE_PER_LEVEL,
          st.units[entity].level * CELL_SIZE * BASE_SCALE_PER_LEVEL>>]

upgrade_unit_unwraps_grid(st, b1) ==
    IF st.resource_count > 0 /\ b1
    THEN IF st.selected \in DOMAIN st.grid
         THEN LET entity == st.grid[st.selected] IN
              IF st.units[entity].kind = "Base"
              THEN rescale_base(level_up(st, entity), entity)
              ELSE level_up(st, entity)
         ELSE [st EXCEPT !.panicked = TRUE]
    ELSE st

upgrade_unit_turret_free(st, b1) ==
    IF st.resource_count > 0 /\ b1 /\ st.selected \in DOMAIN st.grid
    THEN LET entity == st.grid[st.selected] IN
         IF st.units[entity].kind = "Base"
         THEN rescale_base(level_up(st, entity), entity)
         ELSE [st EXCEPT !.units[entity].level = @ + 1]
    ELSE st

upgrade_unit_no_resource_check(st, b1) ==
    IF b1 /\ st.selected \in DOMAIN st.grid
    THEN level_up(st, st.grid[st.selected])
    ELSE st

upgrade_unit_stale_scale(st, b1) ==
    IF st.resource_count > 0 /\ b1 /\ st.selected \in DOMAIN st.grid
    THEN LET entity == st.grid[st.selected] IN
         IF st.units[entity].kind = "Base"
         THEN level_up(rescale_base(st, entity), entity)
         ELSE level_up(st, entity)
    ELSE st

\* lines 271-296: the upgrade step (button 1).
upgrade_unit(st, b1) ==
    IF st.resource_count > 0 /\ b1
    THEN IF st.selected \in DOMAIN st.grid
         THEN LET entity == st.grid[st.selected] IN
              IF entity \notin DOMAIN st.units
              THEN [st EXCEPT !.panicked = TRUE]     \* unwrap() on None
              ELSE IF st.units[entity].kind = "Base"
              THEN rescale_base(level_up(st, entity), entity)
              ELSE level_up(st, entity)
         ELSE st
    ELSE st

\* lines 229-233: the cursor follows the mouse, the selection the cursor.
\* cursor += (mouse_x as f32 * MOUSE_SPEED, -mouse_y as f32 * MOUSE_SPEED),
\* each product and each sum rounded to f32.
move_cursor(st, mouse_x, mouse_y) ==
    LET c == [x |-> f32_add(st.cursor.x, f32_scale(mouse_x, MOUSE_SPEED)),
              y |-> f32_add(st.cursor.y, f32_scale(-mouse_y, MOUSE_SPEED))]
    IN [st EXCEPT !.cursor = c, !.selected = from_world(c)]

\* The entities created for anything but a player unit are capped, with room
\* left for the spawn chain to run to the floor.
InBudget(st) ==
    (st.next_entity - Cardinality(DOMAIN st.units))
      + Max(0, MIN_ENEMY_COUNT - 1 - Cardinality(st.enemies)) <= MaxEntity

manager_update_effect_upgrade_first(mouse_x, mouse_y, b0, b1) ==
    LET moved == move_cursor(State, mouse_x, mouse_y)
        upgraded == upgrade_unit(moved, b1)
        done == place_turret(upgraded, b0)
    IN /\ ~panicked
       /\ Commit(done)

\* The frame's effect on the managers.
manager_update_effect(mouse_x, mouse_y, b0, b1) ==
    LET moved == move_cursor(State, mouse_x, mouse_y)
        placed == place_turret(moved, b0)
        done == upgrade_unit(placed, b1)
    IN /\ ~panicked
       /\ Commit(done)

manager_update(mouse_x, mouse_y, b0, b1) ==
    LET moved == move_cursor(State, mouse_x, mouse_y)
        placed == place_turret(moved, b0)
    IN /\ manager_update_effect(mouse_x, mouse_y, b0, b1)
       /\ obs' = [NoObs EXCEPT !.op = "manager_update", !.b0 = b0,
                                !.b1 = b1,
                                !.pre_resource = resource_count,
                                !.mid = placed]

----------------------------------------------------------------------------
(* Alarm callbacks.                                                        *)

\* lines 342-351: a stub, it reads the turret and changes nothing.
fire_turret_effect(alarm) ==
    /\ ~panicked
    /\ alarm \in alarms
    /\ alarm.callback = "fire_turret"
    /\ Commit(State)

fire_turret(alarm) ==
    /\ fire_turret_effect(alarm)
    /\ obs' = [NoObs EXCEPT !.op = "fire_turret", !.enemy = alarm.entity]

spawn_no_reschedule(st, entity) ==
    [st EXCEPT
       !.scale = Put(@, entity, <<ENEMY_RADIUS, ENEMY_RADIUS, ENEMY_RADIUS>>),
       !.meshes = Put(@, entity, "pSphere1-lib"),
       !.enemies = @ \cup {entity},
       !.colliders = Put(@, entity, [shape |-> "Sphere", callback |-> TRUE])]

spawn_always_reschedules(st, entity) ==
    schedule_spawn(spawn_no_reschedule(st, entity))

\* lines 386-412, applied to the state with the one-shot alarm consumed.
spawn(st, entity) ==
    LET s1 == [st EXCEPT
                 !.scale = Put(@, entity,
                               <<ENEMY_RADIUS, ENEMY_RADIUS, ENEMY_RADIUS>>),
                 !.meshes = Put(@, entity, "pSphere1-lib"),
                 !.enemies = @ \cup {entity},
                 !.colliders = Put(@, entity,
                                   [shape |-> "Sphere", callback |-> TRUE])]
    IN IF Cardinality(s1.enemies) < MIN_ENEMY_COUNT
       THEN schedule_spawn(s1)
       ELSE s1

\* The one-shot alarm fires: it is consumed and its callback runs.
spawn_enemy_effect(alarm) ==
    /\ ~panicked
    /\ alarm \in alarms
    /\ alarm.callback = "spawn_enemy"
    /\ Commit(spawn([State EXCEPT !.alarms = @ \ {alarm}], alarm.entity))

spawn_enemy(alarm) ==
    /\ spawn_enemy_effect(alarm)
    /\ obs' = [NoObs EXCEPT !.op = "spawn_enemy", !.enemy = alarm.entity]

----------------------------------------------------------------------------
(* on_enemy_collision.                                                     *)

\* lines 428-436: the enemy is destroyed and the spawner kicked off.
destroy_enemy_no_reschedule(st, enemy_entity) ==
    destroy_entity(st, enemy_entity)

destroy_enemy_stale_count(st, enemy_entity) ==
    IF Cardinality(st.enemies) < MIN_ENEMY_COUNT
    THEN schedule_spawn(destroy_entity(st, enemy_entity))
    ELSE destroy_entity(st, enemy_entity)

destroy_enemy(st, enemy_entity) ==
    LET s1 == destroy_entity(st, enemy_entity)
    IN IF Cardinality(s1.enemies) < MIN_ENEMY_COUNT
       THEN schedule_spawn(s1)
       ELSE s1

collide_break(st, enemy_entity, others, i) ==
    IF i > Len(others) \/ others[i] \in st.enemies
    THEN st
    ELSE destroy_enemy(st, enemy_entity)

RECURSIVE collide_destroys_other(_, _, _, _)
collide_destroys_other(st, enemy_entity, others, i) ==
    IF i > Len(others) THEN st
    ELSE IF others[i] \in st.enemies
    THEN collide_destroys_other(st, enemy_entity, others, i + 1)
    ELSE destroy_enemy(st, others[i])

\* lines 418-437: the loop over others, from index i on.
RECURSIVE collide(_, _, _, _)
collide(st, enemy_entity, others, i) ==
    IF i > Len(others) THEN st
    ELSE IF others[i] \in st.enemies
    THEN collide(st, enemy_entity, others, i + 1)          \* continue
    ELSE destroy_enemy(st, enemy_entity)                   \* return

\* The colliders an enemy can touch at once: the MaxOthers oldest ones.
Nearby(enemy_entity) ==
    LET C == (DOMAIN colliders) \ {enemy_entity}
    IN {e \in C : Cardinality({d \in C : d < e}) < MaxOthers}

\* The lists of distinct colliding entities the engine can hand over.
OthersOf(enemy_entity) ==
    LET S == Nearby(enemy_entity)
    IN UNION {{o \in [1 .. n -> S] :
                 \A i, j \in 1 .. n : i # j => o[i] # o[j]} :
              n \in 0 .. MaxOthers}

\* For each of the others, whether it carries Enemy when the callback starts.
KindsOf(others) == [i \in 1 .. Len(others) |-> others[i] \in enemies]

on_enemy_collision_effect(enemy_entity, others) ==
    LET done == collide(State, enemy_entity, others, 1)
    IN /\ ~panicked
       /\ enemy_entity \in DOMAIN colliders
       /\ colliders[enemy_entity].callback
       /\ "on_enemy_collision" \in callbacks
       /\ InBudget(done)
       /\ Commit(done)

on_enemy_collision(enemy_entity, others) ==
    /\ on_enemy_collision_effect(enemy_entity, others)
    /\ obs' = [NoObs EXCEPT !.op = "on_enemy_collision",
                             !.enemy = enemy_entity,
                             !.kinds = KindsOf(others)]

----------------------------------------------------------------------------
(* Hotload.                                                                *)

\* lines 40-46: the managers are carried over, scene_reset runs again.
game_reload_effect ==
    LET done == scene_reset(State)
    IN /\ ~panicked
       /\ InBudget(done)
       /\ Commit(done)

game_reload ==
    /\ game_reload_effect
    /\ obs' = [NoObs EXCEPT !.op = "game_reload"]

----------------------------------------------------------------------------
(* The engine's main loop: frames, alarms, collisions, hotloads.           *)

\* The player moves the mouse sideways by whole cells, over a row of cells.
\* The mouse travel of one cell: 50 as f32 * MOUSE_SPEED is 5.0 in f32.
MouseStep == CELL_SIZE * MOUSE_SPEED_DEN
MouseDeltas == {-MouseStep, 0, MouseStep}

InWorld(pos) == pos.x \in 0 .. MaxCellX /\ pos.y = 0

Frame ==
    \E mouse_x \in MouseDeltas, b0 \in BOOLEAN, b1 \in BOOLEAN :
       /\ InWorld(move_cursor(State, mouse_x, 0).selected)
       /\ manager_update(mouse_x, 0, b0, b1)

Fire == \E alarm \in alarms : fire_turret(alarm)

SpawnAlarm == \E alarm \in alarms : spawn_enemy(alarm)

Collision ==
    \E enemy_entity \in DOMAIN colliders :
       \E others \in OthersOf(enemy_entity) :
          on_enemy_collision(enemy_entity, others)

Next == Frame \/ Fire \/ SpawnAlarm \/ Collision \/ game_reload

Spec == Init /\ [][Next]_vars

\* The input system alone: frames and the turrets' fire alarms.
NextFrames == Frame \/ Fire

SpecFrames == Init /\ [][NextFrames]_vars

\* The spawner alone: spawn alarms, collisions and hotloads.
NextEnemies == SpawnAlarm \/ Collision \/ game_reload

SpecEnemies == Init /\ [][NextEnemies]_vars

\* The spawner when every pending spawn alarm eventually fires.
SpecEnemiesFair == SpecEnemies /\ WF_vars(SpawnAlarm)

\* The cursor alone: frames that move the mouse by single steps, no button.
FineDeltas == {-1, 0, 1}

\* The cursor stays within MaxCoord mouse steps of the origin along x and
\* within a tenth of that along y.
InReach(c) ==
    /\ Abs(c.x) <= MaxCoord * MOUSE_SPEED
    /\ Abs(c.y) <= (MaxCoord \div MOUSE_SPEED_DEN) * MOUSE_SPEED

CursorFrame ==
    \E mouse_x \in FineDeltas, mouse_y \in FineDeltas :
       /\ InReach(move_cursor(State, mouse_x, mouse_y).cursor)
       /\ manager_update(mouse_x, mouse_y, FALSE, FALSE)

SpecGrid == Init /\ [][CursorFrame]_vars

\* The whole game, all five events interleaved; of each event only its kind
\* is observed.
Seen(op) == obs' = [NoObs EXCEPT !.op = op]

GameFrame ==
    \E mouse_x \in MouseDeltas, b0 \in BOOLEAN, b1 \in BOOLEAN :
       /\ InWorld(move_cursor(State, mouse_x, 0).selected)
       /\ manager_update_effect(mouse_x, 0, b0, b1)
       /\ Seen("manager_update")

GameFire ==
    \E alarm \in alarms : fire_turret_effect(alarm) /\ Seen("fire_turret")

GameSpawnAlarm ==
    \E alarm \in alarms : spawn_enemy_effect(alarm) /\ Seen("spawn_enemy")

GameCollision ==
    \E enemy_entity \in DOMAIN colliders :
       \E others \in OthersOf(enemy_entity) :
          /\ on_enemy_collision_effect(enemy_entity, others)
          /\ Seen("on_enemy_collision")

GameReload == game_reload_effect /\ Seen("game_reload")

NextGame ==
    GameFrame \/ GameFire \/ GameSpawnAlarm \/ GameCollision \/ GameReload

SpecGame == Init /\ [][NextGame]_vars

----------------------------------------------------------------------------
(* Properties.                                                             *)

IsFrame(o) == o.op = "manager_update"

\* The alarms the step from the managers `before` to `after` has added.
Added(before, after) == after \ before

IsOneSpawnAlarm(new, fresh_from) ==
    /\ Cardinality(new) = 1
    /\ \A a \in new : /\ a.callback = "spawn_enemy"
                      /\ ~a.repeating
                      /\ a.entity >= fresh_from

\* C1: resource_count never goes below 0, neither between the two steps of
\* a frame nor at its end, whatever buttons are pressed together.
C1_ResourceNeverNegative ==
    /\ resource_count >= 0
    /\ IsFrame(obs) => obs.mid.resource_count >= 0

\* A frame with both buttons in which the placement spent the last resource.
C1_Witness ==
    /\ IsFrame(obs) /\ obs.b0 /\ obs.b1
    /\ obs.pre_resource = 1
    /\ obs.mid.resource_count = 0
    /\ resource_count = 0

\* C2: button 0 on a cell that is already a key of grid: the placement step
\* changes neither grid nor resource_count and creates no entity, no
\* PlayerUnit and no alarm.
C2_OccupiedIsNoOp ==
    [][(IsFrame(obs') /\ obs'.b0 /\ selected' \in DOMAIN grid) =>
          /\ obs'.mid.grid = grid
          /\ obs'.mid.resource_count = resource_count
          /\ obs'.mid.entities = entities
          /\ obs'.mid.next_entity = next_entity
          /\ obs'.mid.units = units
          /\ obs'.mid.alarms = alarms]_vars

\* Button 0 with resources left, and yet nothing was placed.
C2_Witness ==
    /\ IsFrame(obs) /\ obs.b0
    /\ obs.pre_resource > 0
    /\ obs.mid.resource_count = obs.pre_resource
    /\ selected \in DOMAIN grid
    /\ units[grid[selected]].kind = "Turret"

\* C3: button 0 with resource_count = 0 creates nothing, on any cell: no
\* entity, no grid entry, no PlayerUnit, no alarm, in the whole frame.
C3_NoResourceNoEntity ==
    [][(IsFrame(obs') /\ obs'.b0 /\ resource_count = 0) =>
          /\ obs'.mid.entities = entities /\ entities' = entities
          /\ obs'.mid.next_entity = next_entity /\ next_entity' = next_entity
          /\ obs'.mid.grid = grid /\ grid' = grid
          /\ DOMAIN obs'.mid.units = DOMAIN units
          /\ DOMAIN units' = DOMAIN units
          /\ obs'.mid.alarms = alarms /\ alarms' = alarms]_vars

\* Button 0 without resources on an unoccupied cell.
C3_Witness ==
    /\ IsFrame(obs) /\ obs.b0
    /\ obs.pre_resource = 0
    /\ selected \notin DOMAIN grid

\* C4: button 0 with resource_count > 0 on an unoccupied cell: after the
\* placement step the cell holds a fresh entity that is a Turret of level 1
\* without target, one repeating fire_turret alarm was registered for it and
\* is its shoot_alarm, the other grid entries are as before and
\* resource_count is one less.
C4_PlacementEffect ==
    [][(IsFrame(obs') /\ obs'.b0 /\ resource_count > 0
          /\ selected' \notin DOMAIN grid) =>
          LET m == obs'.mid
              new == Added(alarms, m.alarms)
          IN /\ DOMAIN m.grid = DOMAIN grid \cup {selected'}
             /\ \A k \in DOMAIN grid : m.grid[k] = grid[k]
             /\ m.grid[selected'] \in m.entities \ entities
             /\ m.grid[selected'] >= next_entity
             /\ DOMAIN m.units = DOMAIN units \cup {m.grid[selected']}
             /\ \A e \in DOMAIN units : m.units[e] = units[e]
             /\ m.units[m.grid[selected']].kind = "Turret"
             /\ m.units[m.grid[selected']].level = 1
             /\ m.units[m.grid[selected']].target = None
             /\ alarms \subseteq m.alarms
             /\ Cardinality(new) = 1
             /\ \A a \in new :
                   /\ a.entity = m.grid[selected']
                   /\ a.callback = "fire_turret"
                   /\ a.repeating
                   /\ a.id = m.units[m.grid[selected']].shoot_alarm
                   /\ \A b \in alarms : b.id # a.id
             /\ m.resource_count = resource_count - 1]_vars

\* The scenario of the spec: 10 resources, only the base, a turret at (1,0).
C4_Witness ==
    /\ IsFrame(obs) /\ obs.b0
    /\ obs.pre_resource = 10
    /\ obs.mid.resource_count = 9
    /\ selected = GridPos_new(1, 0)
    /\ DOMAIN obs.mid.grid = {GridPos_new(0, 0), GridPos_new(1, 0)}
    /\ obs.mid.units[obs.mid.grid[selected]].level = 1

\* C5: button 1 with resource_count > 0 on the Base: its level goes up by
\* exactly 1, resource_count down by exactly 1, and its scale is the new
\* level times CELL_SIZE times BASE_SCALE_PER_LEVEL on all three axes; so in
\* every state the Base's scale is its level times that factor.
C5_BaseUpgrade ==
    [][/\ \A e \in DOMAIN units :
             units[e].kind = "Base" =>
                \A i \in 1 .. 3 :
                   scale[e][i] = units[e].level * CELL_SIZE * BASE_SCALE_PER_LEVEL
       /\ (IsFrame(obs') /\ obs'.b1 /\ obs'.mid.resource_count > 0
             /\ selected' \in DOMAIN obs'.mid.grid
             /\ obs'.mid.units[obs'.mid.grid[selected']].kind = "Base") =>
             LET e == obs'.mid.grid[selected']
             IN /\ units'[e].kind = "Base"
                /\ units'[e].level = obs'.mid.units[e].level + 1
                /\ resource_count' = obs'.mid.resource_count - 1
                /\ \A i \in 1 .. 3 :
                      scale'[e][i] =
                         units'[e].level * CELL_SIZE * BASE_SCALE_PER_LEVEL]_vars

\* The Base after its second upgrade.
C5_Witness ==
    /\ IsFrame(obs) /\ obs.b1
    /\ selected = GridPos_new(0, 0)
    /\ resource_count = obs.mid.resource_count - 1
    /\ units[grid[selected]].kind = "Base"
    /\ units[grid[selected]].level = 3
    /\ scale[grid[selected]] = <<15, 15, 15>>

NumEnemies == Cardinality(enemies)

IsCollision(o) == o.op = "on_enemy_collision"

\* C6: a collision that destroys the enemy schedules exactly one one-shot
\* spawn_enemy alarm if the enemy count it leaves is below MIN_ENEMY_COUNT,
\* and none otherwise.
C6_CollisionSchedulesOnce ==
    [][(IsCollision(obs') /\ obs'.enemy \in entities
          /\ obs'.enemy \notin entities') =>
          IF Cardinality(enemies') < MIN_ENEMY_COUNT
          THEN /\ alarms \subseteq alarms'
               /\ IsOneSpawnAlarm(Added(alarms, alarms'), next_entity)
          ELSE alarms' = alarms]_vars

\* An enemy was destroyed, four are left and the newest alarm is a spawn.
C6_Witness ==
    /\ IsCollision(obs)
    /\ obs.enemy \notin entities
    /\ NumEnemies = MIN_ENEMY_COUNT - 1
    /\ \E a \in alarms : /\ a.id = next_alarm - 1
                         /\ a.entity = next_entity - 1
                         /\ a.callback = "spawn_enemy"

\* An enemy was destroyed and the floor still holds: nothing is pending.
C6_WitnessNone ==
    /\ IsCollision(obs)
    /\ obs.enemy \notin entities
    /\ NumEnemies >= MIN_ENEMY_COUNT
    /\ alarms = {}

\* C7: the enemy is destroyed, once, exactly when one of the others is not
\* an enemy, wherever it stands in the list; otherwise nothing changes.
C7_DestroyedIffNonEnemy ==
    [][IsCollision(obs') =>
          IF \E i \in DOMAIN obs'.kinds : ~obs'.kinds[i]
          THEN /\ obs'.enemy \in entities
               /\ entities \ entities' = {obs'.enemy}
               /\ enemies' = enemies \ {obs'.enemy}
          ELSE UNCHANGED <<entities, next_entity, grid, selected, cursor,
                           resource_count, units, enemies, scale, meshes,
                           colliders, alarms, next_alarm, callbacks,
                           panicked>>]_vars

\* The list [enemy, base, enemy]: the base comes second, the enemy is gone.
C7_Witness ==
    /\ IsCollision(obs)
    /\ obs.kinds = <<TRUE, FALSE, TRUE>>
    /\ obs.enemy \notin entities

\* The list [base, enemy, enemy].
C7_WitnessBaseFirst ==
    /\ IsCollision(obs)
    /\ obs.kinds = <<FALSE, TRUE, TRUE>>
    /\ obs.enemy \notin entities

\* Only enemies in the list: the enemy lives on.
C7_WitnessOnlyEnemies ==
    /\ IsCollision(obs)
    /\ obs.kinds = <<TRUE, TRUE>>
    /\ obs.enemy \in entities

\* C8: scene_reset, at the end of game_init and of every game_reload,
\* schedules exactly one one-shot spawn_enemy alarm when fewer than
\* MIN_ENEMY_COUNT enemies live, and none otherwise.
C8_ResetSchedulesOnce ==
    [][/\ obs.op = "game_init" =>
             /\ enemies = {}
             /\ IsOneSpawnAlarm(alarms, 0)
       /\ obs'.op = "game_reload" =>
             IF NumEnemies < MIN_ENEMY_COUNT
             THEN /\ alarms \subseteq alarms'
                  /\ IsOneSpawnAlarm(Added(alarms, alarms'), next_entity)
             ELSE alarms' = alarms]_vars

\* The scenario of the spec: four enemies, floor five, a reload.
C8_Witness ==
    /\ obs.op = "game_reload"
    /\ NumEnemies = 4
    /\ \E a \in alarms : /\ a.id = next_alarm - 1
                         /\ a.entity = next_entity - 1
                         /\ a.callback = "spawn_enemy"

\* A reload with the floor reached and nothing pending.
C8_WitnessNone ==
    /\ obs.op = "game_reload"
    /\ NumEnemies >= MIN_ENEMY_COUNT
    /\ alarms = {}

\* C9: if every pending spawn alarm eventually fires and collisions stop,
\* then whenever fewer than MIN_ENEMY_COUNT enemies live, eventually at
\* least MIN_ENEMY_COUNT do.
C9_FloorRestored ==
    (<>[](~IsCollision(obs))) =>
       ((NumEnemies < MIN_ENEMY_COUNT) ~> (NumEnemies >= MIN_ENEMY_COUNT))

\* The floor is reached again by a spawn after an enemy was destroyed.
C9_Witness ==
    /\ obs.op = "spawn_enemy"
    /\ NumEnemies = MIN_ENEMY_COUNT
    /\ \E e \in 0 .. next_entity - 1 :
          e \notin entities /\ \A a \in alarms : a.entity # e

\* C10: the cell of the minimum corner of p's cell is p's cell, for the
\* point p the cursor is at.
C10_RefloorIdempotent ==
    from_world(to_world(from_world(cursor))) = from_world(cursor)

\* A point with negative coordinates that lies inside its cell.
C10_Witness ==
    /\ IsFrame(obs)
    /\ cursor.x < -CELL_SIZE * F32_ONE /\ cursor.y < 0
    /\ selected = GridPos_new(-2, -1)
    /\ to_world(selected) # cursor

\* A point that the rounding of the sums has left just below a cell edge
\* which the same mouse travel reaches without rounding.
C10_WitnessDrift ==
    /\ IsFrame(obs)
    /\ cursor.x < CELL_SIZE * F32_ONE
    /\ cursor.x > CELL_SIZE * F32_ONE - Spacing(cursor.x) * MOUSE_SPEED_DEN
    /\ selected.x = 0
    /\ cursor.y < 0 /\ cursor.y > -MOUSE_SPEED_DEN
    /\ selected.y = -1

\* The entities that were created and are gone again.
Destroyed == {e \in 0 .. next_entity - 1 : e \notin entities}

TurretsOf(u) == {e \in DOMAIN u : u[e].kind = "Turret"}

\* C11: across every transition the level of a PlayerUnit stays or goes up
\* by exactly 1, and it goes up only for the unit of the selected cell in a
\* frame that spends a resource on it; a level is always at least 1.
C11_LevelMonotone ==
    [][/\ \A e \in DOMAIN units' : units'[e].level >= 1
       /\ \A e \in DOMAIN units \cap DOMAIN units' :
             /\ units'[e].kind = units[e].kind
             /\ units'[e].level \in {units[e].level, units[e].level + 1}
             /\ units'[e].level = units[e].level + 1 =>
                   /\ IsFrame(obs')
                   /\ selected' \in DOMAIN grid'
                   /\ grid'[selected'] = e
                   /\ resource_count' < resource_count]_vars

\* A turret and the base were upgraded, and an enemy was destroyed.
C11_Witness ==
    /\ \E e \in TurretsOf(units) : units[e].level >= 3
    /\ units[grid[GridPos_new(0, 0)]].level >= 2
    /\ Destroyed # {}
    /\ enemies # {}

\* C12: every entity stored in grid is alive and carries a PlayerUnit, and
\* the unwrap in the upgrade step has never failed.
C12_GridUnitsAlive ==
    /\ ~panicked
    /\ \A k \in DOMAIN grid : grid[k] \in entities /\ grid[k] \in DOMAIN units

\* A turret stands in the grid and was upgraded after an enemy was destroyed
\* by a collision.
C12_Witness ==
    /\ IsFrame(obs)
    /\ Destroyed # {}
    /\ selected \in DOMAIN grid
    /\ grid[selected] \in TurretsOf(units)
    /\ units[grid[selected]].level = 2
    /\ \A e \in Destroyed : e < grid[selected]

SpawnAlarms == {a \in alarms : a.callback = "spawn_enemy"}

IsSpawn(o) == o.op = "spawn_enemy"

\* C13: at most one spawn_enemy alarm is pending after every step, and no
\* spawn happens while the count of live enemies is at MIN_ENEMY_COUNT or
\* above.
C13_SingleSpawnChain ==
    [][/\ Cardinality(SpawnAlarms') <= 1
       /\ IsSpawn(obs') => NumEnemies < MIN_ENEMY_COUNT]_vars

\* C14: a firing spawn alarm is consumed and makes its own entity one new
\* enemy with transform, mesh and sphere collider with the collision
\* callback; it schedules exactly one one-shot spawn alarm on a fresh entity
\* if the count it leaves is below MIN_ENEMY_COUNT, and none otherwise.
C14_SpawnEffect ==
    [][IsSpawn(obs') =>
          LET e == obs'.enemy IN
          /\ \E a \in SpawnAlarms : a.entity = e /\ ~a.repeating
                                    /\ a \notin alarms'
          /\ e \notin enemies
          /\ enemies' = enemies \cup {e}
          /\ NumEnemies' = NumEnemies + 1
          /\ e \in entities'
          /\ scale'[e] = <<ENEMY_RADIUS, ENEMY_RADIUS, ENEMY_RADIUS>>
          /\ meshes'[e] = "pSphere1-lib"
          /\ colliders'[e] = [shape |-> "Sphere", callback |-> TRUE]
          /\ DOMAIN colliders' = DOMAIN colliders \cup {e}
          /\ IF NumEnemies' < MIN_ENEMY_COUNT
             THEN /\ IsOneSpawnAlarm(Added(alarms, alarms'), next_entity)
                  /\ next_entity' = next_entity + 1
             ELSE /\ Added(alarms, alarms') = {}
                  /\ next_entity' = next_entity]_vars

\* A spawn below the floor has left its successor alarm on a fresh entity.
C14_Witness ==
    /\ IsSpawn(obs)
    /\ NumEnemies = MIN_ENEMY_COUNT - 1
    /\ obs.enemy \in enemies
    /\ \E a \in SpawnAlarms : a.entity = next_entity - 1 /\ a.entity > obs.enemy

\* A spawn that reached the floor has left no alarm behind.
C14_WitnessFloor ==
    /\ IsSpawn(obs)
    /\ NumEnemies = MIN_ENEMY_COUNT
    /\ SpawnAlarms = {}

\* scene_reset has just run: at the end of game_init or of a game_reload.
IsReset(o) == o.op \in {"game_init", "game_reload"}

\* C16: scene_reset run again directly after scene_reset leaves the state
\* the first run left, and it never changes grid, resource_count or a
\* PlayerUnit.
C16_ResetIdempotent ==
    [][(IsReset(obs) /\ obs'.op = "game_reload") =>
          /\ alarms' = alarms
          /\ entities' = entities
          /\ next_entity' = next_entity
          /\ callbacks' = callbacks
          /\ enemies' = enemies
          /\ grid' = grid
          /\ resource_count' = resource_count
          /\ units' = units]_vars

\* C18: while fewer than MIN_ENEMY_COUNT enemies are alive, a spawn_enemy
\* alarm is pending.
C18_BelowFloorHasAlarm ==
    NumEnemies < MIN_ENEMY_COUNT => SpawnAlarms # {}

\* A collision has taken the count from the floor to one below it, where no
\* alarm was pending before.
C18_Witness ==
    /\ IsCollision(obs)
    /\ Destroyed # {}
    /\ NumEnemies = MIN_ENEMY_COUNT - 1
    /\ Cardinality(SpawnAlarms) = 1
    /\ \A a \in SpawnAlarms : a.entity = next_entity - 1

\* C15: a frame with button 1 down whose upgrade step finds no resource or
\* no grid entry for the selected cell changes no level, resource_count or
\* grid entry in that step, and does not panic; without button 0 the whole
\* frame changes none of them.
C15_UnmetUpgradeIsNoOp ==
    [][(/\ IsFrame(obs')
        /\ obs'.b1
        /\ \/ obs'.mid.resource_count = 0
           \/ selected' \notin DOMAIN obs'.mid.grid) =>
          /\ ~panicked'
          /\ units' = obs'.mid.units
          /\ scale' = obs'.mid.scale
          /\ resource_count' = obs'.mid.resource_count
          /\ grid' = obs'.mid.grid
          /\ ~obs'.b0 => /\ units' = units
                         /\ resource_count' = resource_count
                         /\ grid' = grid]_vars

\* Button 1 alone on an empty cell, with resources left.
C15_Witness ==
    /\ IsFrame(obs)
    /\ obs.b1 /\ ~obs.b0
    /\ selected \notin DOMAIN grid
    /\ resource_count > 0
    /\ resource_count < INITIAL_RESOURCE_COUNT

\* Button 1 alone on an occupied cell, with nothing left to spend.
C15_WitnessNoResource ==
    /\ IsFrame(obs)
    /\ obs.b1 /\ ~obs.b0
    /\ selected \in DOMAIN grid
    /\ obs.pre_resource = 0

RECURSIVE LevelSum(_, _)
LevelSum(u, es) ==
    IF es = {} THEN 0
    ELSE LET e == CHOOSE x \in es : TRUE
         IN u[e].level + LevelSum(u, es \ {e})

\* C17: resource_count plus the levels of all PlayerUnits is the initial
\* resource_count plus the Base's initial level, 11.
C17_ResourceConserved ==
    resource_count + LevelSum(units, DOMAIN units) = INITIAL_RESOURCE_COUNT + 1

\* Everything was spent, on the base and on an upgraded turret, with enemies
\* spawned and destroyed meanwhile.
C17_Witness ==
    /\ resource_count = 0
    /\ \E e \in TurretsOf(units) : units[e].level >= 2
    /\ units[grid[GridPos_new(0, 0)]].level >= 2
    /\ Destroyed # {}

\* C19: a frame with both buttons on an unoccupied cell places a Turret and
\* upgrades it at once: level 2 for 2 resources if 2 are there, level 1 and
\* resource_count 0 if only 1 is.
C19_PlaceThenUpgrade ==
    [][(/\ IsFrame(obs')
        /\ obs'.b0 /\ obs'.b1
        /\ selected' \notin DOMAIN grid
        /\ resource_count >= 1) =>
          /\ selected' \in DOMAIN grid'
          /\ grid'[selected'] \notin entities
          /\ units'[grid'[selected']].kind = "Turret"
          /\ IF resource_count >= 2
             THEN /\ units'[grid'[selected']].level = 2
                  /\ resource_count' = resource_count - 2
             ELSE /\ units'[grid'[selected']].level = 1
                  /\ resource_count' = 0]_vars

\* Both buttons on an empty cell with at least 2 resources.
C19_Witness ==
    /\ IsFrame(obs)
    /\ obs.b0 /\ obs.b1
    /\ obs.pre_resource >= 2
    /\ obs.mid.resource_count = obs.pre_resource - 1
    /\ selected \in DOMAIN grid
    /\ units[grid[selected]].kind = "Turret"
    /\ units[grid[selected]].level = 2
    /\ units[grid[selected]].target = None
    /\ obs.mid.units[grid[selected]].level = 1
    /\ resource_count = obs.pre_resource - 2

\* Both buttons on an empty cell with the last resource.
C19_WitnessLast ==
    /\ IsFrame(obs)
    /\ obs.b0 /\ obs.b1
    /\ obs.pre_resource = 1
    /\ selected \in DOMAIN grid
    /\ units[grid[selected]].kind = "Turret"
    /\ units[grid[selected]].level = 1
    /\ grid[selected] = next_entity - 1
    /\ resource_count = 0

Origin == GridPos_new(0, 0)

\* C20: grid only grows and keeps its entries, distinct cells hold distinct
\* entities, and (0,0) holds the entity of scene_setup, the one Base.
C20_GridOnlyGrows ==
    [][/\ \A k \in DOMAIN grid : k \in DOMAIN grid' /\ grid'[k] = grid[k]
       /\ \A k1, k2 \in DOMAIN grid' : k1 # k2 => grid'[k1] # grid'[k2]
       /\ Origin \in DOMAIN grid'
       /\ grid'[Origin] = game_init.grid[Origin]
       /\ \A k \in DOMAIN grid' :
             units'[grid'[k]].kind = "Base" <=> k = Origin]_vars

\* A second cell was filled while enemies were spawned and destroyed.
C20_Witness ==
    /\ Cardinality(DOMAIN grid) >= 2
    /\ \A k \in DOMAIN grid : k # Origin => grid[k] > game_init.next_entity
    /\ Destroyed # {}
    /\ enemies # {}

====
